---- MODULE Spec2Model ----
(***************************************************************************)
(* The two browser chat clients of the repository as one state machine:    *)
(*   "chat" : src/static/chat.js       (ChatApp with messageHistory)       *)
(*   "rc"   : src/unnamed/part_000     (ChatApp with bounded reconnects)   *)
(* The page loads one of the two scripts; `variant` records which one.     *)
(* Text is a sequence of tokens; markup tags and fixed phrases are single  *)
(* tokens.  The browser runs every handler to completion, so every handler *)
(* is one action.                                                          *)
(***************************************************************************)
EXTENDS Naturals, Sequences, FiniteSets

VARIABLES
    variant,        \* which client script the page runs
    readyState,     \* this.ws.readyState: "CONNECTING", "OPEN" or "CLOSED"
    closePending,   \* error event dispatched, close event of the same task still to run
    timers,         \* pending setTimeout(() => this.initWebSocket(), d): the delays d
    messages,       \* children of #chat-messages, in document order
    inputValue,     \* messageInput.value
    sendButtonDisabled,
    messageInputDisabled,
    sent,           \* frames handed to ws.send, as serialised at the call
    messageHistory, \* chat: this.messageHistory
    isTyping,       \* chat: this.isTyping
    currentAssistantMessage,    \* chat: this.currentAssistantMessage
    currentAssistantMessageDiv, \* chat: index into messages, 0 for null
    tools,          \* rc: this.tools
    toolsList,      \* rc: children of #tools-list
    isConnected,    \* rc: this.isConnected
    reconnectAttempts, \* rc: this.reconnectAttempts
    deltaLog,       \* history: delta texts received since the streaming entry was created
    closures,       \* history (rc): transport closures since the last open
    delays,         \* history (rc): reconnect delays scheduled since the last open
    outstanding,    \* history (chat): a frame was sent, no complete or error frame has followed
    finalised,      \* history (rc): a complete wrote the newest assistant entry, no delta or submit followed
    last            \* history: the handler that ran last, what it was given, the state it started from

vars == <<variant, readyState, closePending, timers, messages, inputValue,
          sendButtonDisabled, messageInputDisabled, sent, messageHistory, isTyping,
          currentAssistantMessage, currentAssistantMessageDiv, tools, toolsList,
          isConnected, reconnectAttempts, deltaLog, closures, delays, outstanding,
          finalised, last>>

chatVars == <<messageHistory, isTyping, currentAssistantMessage,
              currentAssistantMessageDiv, deltaLog, outstanding>>
rcVars == <<tools, toolsList, isConnected, reconnectAttempts, finalised>>

----------------------------------------------------------------------------
(* Bounds of the model *)
MaxEntries == 3     \* children of #chat-messages (chat)
RcMaxEntries == 2   \* children of #chat-messages (rc)
MaxContent == 2     \* tokens of streamed assistant text

(* Program constants *)
ChatReconnectDelay == 5000
maxReconnectAttempts == 5
reconnectDelay == 1000

Variants == {"chat", "rc"}

(* What the user can type, what the server can send *)
TypedTexts == {<<" ">>, <<"a", " ">>}
DeltaTexts == {<<"a">>, <<"b">>}
CompleteTexts == {<<>>, <<"c">>}
ErrorTexts == {<<"boom">>}
ToolLists == {<<>>, <<"t1">>}

Malformed == [type |-> "malformed", content |-> <<>>]
Frames ==
    [type : {"delta"}, content : DeltaTexts]
    \cup [type : {"complete"}, content : CompleteTexts]
    \cup [type : {"error"}, content : ErrorTexts]
    \cup [type : {"tools"}, content : ToolLists]
    \cup [type : {"bogus"}, content : {<<>>}]
    \cup {Malformed}

----------------------------------------------------------------------------
(* Pure helpers *)

RECURSIVE TrimStart(_)
TrimStart(s) ==
    IF s # <<>> /\ Head(s) = " " THEN TrimStart(Tail(s)) ELSE s

RECURSIVE TrimEnd(_)
TrimEnd(s) ==
    IF s # <<>> /\ s[Len(s)] = " " THEN TrimEnd(SubSeq(s, 1, Len(s) - 1)) ELSE s

\* the text used untrimmed
Trim_None(s) == s

\* String.prototype.trim
Trim(s) == TrimEnd(TrimStart(s))

RECURSIVE Concat(_)
Concat(ss) == IF ss = <<>> THEN <<>> ELSE Head(ss) \o Concat(Tail(ss))

\* a child of #chat-messages
Element(cls, typing, html) == [cls |-> cls, typing |-> typing, html |-> html]


\* chat.js formatMarkdown on text without markdown syntax or newlines:
\* the single paragraph is wrapped in <p>..</p>
Chat_formatMarkdown(content) == <<"<p>">> \o content \o <<"</p>">>

\* chat.js addMessage: the new child of #chat-messages
Chat_addMessage(content, role, typing) ==
    Element(role, typing, Chat_formatMarkdown(content))

\* chat.js addSystemMessage: the new child of #chat-messages (textContent, no markup)
Chat_addSystemMessage(content) == Element("system", FALSE, content)

\* showError with the role left out of the addMessage call
Chat_showError_NoRole(error) == Chat_addMessage(<<"Error: ">> \o error, "assistant", FALSE)

\* chat.js showError: the new child of #chat-messages
Chat_showError(error) == Chat_addMessage(<<"Error: ">> \o error, "error", FALSE)

\* the program state a handler starts from
Snapshot ==
    [readyState |-> readyState, timers |-> timers, messages |-> messages,
     inputValue |-> inputValue, sendButtonDisabled |-> sendButtonDisabled,
     messageInputDisabled |-> messageInputDisabled, sent |-> sent,
     messageHistory |-> messageHistory, isTyping |-> isTyping,
     currentAssistantMessage |-> currentAssistantMessage,
     currentAssistantMessageDiv |-> currentAssistantMessageDiv,
     tools |-> tools, toolsList |-> toolsList, isConnected |-> isConnected,
     reconnectAttempts |-> reconnectAttempts,
     deltaLog |-> deltaLog, closures |-> closures,
     outstanding |-> outstanding, finalised |-> finalised]

Ran(op, arg) == [op |-> op, arg |-> arg, pre |-> Snapshot]

\* the bounds: the children of #chat-messages still fit the model
Fits(msgs) == Len(msgs) <= (IF variant = "chat" THEN MaxEntries ELSE RcMaxEntries)

Room(n) == Len(messages) + n <= (IF variant = "chat" THEN MaxEntries ELSE RcMaxEntries)

----------------------------------------------------------------------------
(* src/static/chat.js *)

\* the delta put in front of the accumulated text
Chat_appendDelta_Prepends(current, delta) == delta \o current

\* this.currentAssistantMessage += delta
Chat_appendDelta(current, delta) == current \o delta

\* finalContent used whether or not it is empty
Chat_finalText_NoFallback(finalContent) == finalContent

\* finalContent || this.currentAssistantMessage
Chat_finalText(finalContent) ==
    IF finalContent # <<>> THEN finalContent ELSE currentAssistantMessage

\* a switch whose default reports the frame as an error
Chat_switch_DefaultIsError(type) ==
    IF type \in {"delta", "complete", "error"} THEN type ELSE "error"

\* switch (data.type): the case taken
Chat_switch(type) ==
    IF type \in {"delta", "complete", "error"} THEN type ELSE "default"

\* the early return without the readyState test
Chat_sendRejected_NoReadyState(message) == message = <<>> \/ isTyping

\* the early return without the isTyping test
Chat_sendRejected_NoTyping(message) == message = <<>> \/ readyState # "OPEN"

\* the early return without the empty-message test
Chat_sendRejected_NoEmpty(message) == isTyping \/ readyState # "OPEN"

\* sendMessage: the condition of the early return
Chat_sendRejected(message) ==
    message = <<>> \/ isTyping \/ readyState # "OPEN"

\* a streaming entry started for every delta
Chat_startsEntry_Always == TRUE

\* updateAssistantMessage: the condition under which a new entry is created
Chat_startsEntry == ~isTyping

\* updateAssistantMessage(delta)
Chat_updateAssistantMessage(delta) ==
    LET start == Chat_startsEntry
        cur0 == IF start THEN <<>> ELSE currentAssistantMessage
        msgs0 == IF start
                 THEN Append(messages, Chat_addMessage(<<"...">>, "assistant", TRUE))
                 ELSE messages
        div0 == IF start THEN Len(msgs0) ELSE currentAssistantMessageDiv
        cur1 == Chat_appendDelta(cur0, delta)
    IN  /\ start => Room(1)
        /\ Len(cur1) <= MaxContent
        /\ isTyping' = TRUE
        /\ currentAssistantMessage' = cur1
        /\ currentAssistantMessageDiv' = div0
        /\ messages' = [msgs0 EXCEPT ![div0].html = Chat_formatMarkdown(cur1 \o <<"...">>)]
        /\ deltaLog' = IF start THEN <<delta>> ELSE Append(deltaLog, delta)
        /\ UNCHANGED <<messageHistory, sendButtonDisabled, messageInputDisabled,
                       outstanding>>

\* the item put at the front of the array
Chat_pushHistory_Unshift(item) == <<item>> \o messageHistory

\* this.messageHistory.push(item): the array afterwards
Chat_pushHistory(item) == Append(messageHistory, item)

\* the finished text recorded whether or not the stream ended in an error
Chat_recordsHistory_Always(isError) == TRUE

\* finalizeAssistantMessage: the condition under which the text joins messageHistory
Chat_recordsHistory(isError) == ~isError

\* finalizeAssistantMessage(finalContent, isError), run on the children msgs
Chat_finalizeAssistantMessage(msgs, finalContent, isError) ==
    LET occupied == isTyping /\ currentAssistantMessageDiv # 0
        text == Chat_finalText(finalContent)
    IN  /\ isTyping' = IF occupied THEN FALSE ELSE isTyping
        /\ messages' = IF occupied
                       THEN [msgs EXCEPT ![currentAssistantMessageDiv] =
                                Element(@.cls, FALSE, Chat_formatMarkdown(text))]
                       ELSE msgs
        /\ messageHistory' = IF occupied /\ Chat_recordsHistory(isError)
                             THEN Chat_pushHistory(
                                      [role |-> "assistant", content |-> text])
                             ELSE messageHistory
        /\ currentAssistantMessage' = <<>>
        /\ currentAssistantMessageDiv' = 0
        /\ deltaLog' = <<>>
        /\ sendButtonDisabled' = FALSE
        /\ messageInputDisabled' = FALSE
        /\ outstanding' = FALSE

\* ws.onopen
Chat_onopen ==
    /\ variant = "chat"
    /\ readyState = "CONNECTING" /\ ~closePending
    /\ Room(1)
    /\ readyState' = "OPEN"
    /\ sendButtonDisabled' = FALSE
    /\ messages' = Append(messages, Chat_addSystemMessage(<<"Connected to the chat server.">>))
    /\ last' = Ran("onopen", <<>>)
    /\ UNCHANGED <<variant, closePending, timers, inputValue,
                   messageInputDisabled, sent, chatVars, rcVars, closures, delays>>

\* onerror that schedules a reconnect of its own, before onclose does
Chat_onerror_Reconnects ==
    /\ variant = "chat"
    /\ readyState # "CLOSED" /\ ~closePending
    /\ Room(2)
    /\ readyState' = "CLOSED"
    /\ closePending' = TRUE
    /\ messages' = Append(messages, Chat_addSystemMessage(<<"WebSocket connection error.">>))
    /\ timers' = Append(timers, ChatReconnectDelay)
    /\ last' = Ran("onerror", <<>>)
    /\ UNCHANGED <<variant, inputValue, sendButtonDisabled,
                   messageInputDisabled, sent, chatVars, rcVars, closures, delays>>

\* ws.onerror: the browser fires error and then close in one task
Chat_onerror ==
    /\ variant = "chat"
    /\ readyState # "CLOSED" /\ ~closePending
    /\ Room(2)
    /\ readyState' = "CLOSED"
    /\ closePending' = TRUE
    /\ messages' = Append(messages, Chat_addSystemMessage(<<"WebSocket connection error.">>))
    /\ last' = Ran("onerror", <<>>)
    /\ UNCHANGED <<variant, timers, inputValue, sendButtonDisabled,
                   messageInputDisabled, sent, chatVars, rcVars, closures, delays>>

\* onclose without the setTimeout call
Chat_scheduleReconnect_Missing == timers

\* onclose: setTimeout(() => this.initWebSocket(), 5000), the timers afterwards
Chat_scheduleReconnect == Append(timers, ChatReconnectDelay)

\* ws.onclose
Chat_onclose ==
    /\ variant = "chat"
    /\ readyState # "CLOSED" \/ closePending
    /\ Room(1)
    /\ readyState' = "CLOSED"
    /\ closePending' = FALSE
    /\ sendButtonDisabled' = TRUE
    /\ messages' = Append(messages,
                       Chat_addSystemMessage(<<"Connection lost. Attempting to reconnect...">>))
    /\ timers' = Chat_scheduleReconnect
    /\ last' = Ran("onclose", <<>>)
    /\ UNCHANGED <<variant, inputValue, messageInputDisabled, sent,
                   chatVars, rcVars, closures, delays>>

\* the reconnect timer fires: initWebSocket constructs the next WebSocket
Chat_initWebSocket ==
    /\ variant = "chat"
    /\ ~closePending
    /\ \E i \in 1..Len(timers) :
          timers' = SubSeq(timers, 1, i - 1) \o SubSeq(timers, i + 1, Len(timers))
    /\ readyState' = "CONNECTING"
    /\ last' = Ran("timer", <<>>)
    /\ UNCHANGED <<variant, closePending, messages, inputValue, sendButtonDisabled,
                   messageInputDisabled, sent, chatVars, rcVars, closures, delays>>

\* onmessage without the try block: the exception leaves the handler
Chat_caught_NoTry(data) == FALSE

\* onmessage: the catch block runs, JSON.parse having thrown
Chat_caught(data) == data = Malformed

\* ws.onmessage
Chat_onmessage(data) ==
    /\ variant = "chat"
    /\ readyState = "OPEN" /\ ~closePending
    /\ last' = Ran(data.type, data.content)
    /\ CASE Chat_caught(data) ->
                \* JSON.parse throws; the catch block reports it
                /\ Room(1)
                /\ messages' = Append(messages,
                                   Chat_showError(<<"Received malformed data from server.">>))
                /\ UNCHANGED <<chatVars, sendButtonDisabled, messageInputDisabled>>
         [] data # Malformed /\ Chat_switch(data.type) = "delta" ->
                Chat_updateAssistantMessage(data.content)
         [] data # Malformed /\ Chat_switch(data.type) = "complete" ->
                Chat_finalizeAssistantMessage(messages, data.content, FALSE)
         [] data # Malformed /\ Chat_switch(data.type) = "error" ->
                /\ Room(1)
                /\ IF isTyping
                   THEN Chat_finalizeAssistantMessage(
                            Append(messages, Chat_showError(data.content)), <<>>, TRUE)
                   ELSE /\ messages' = Append(messages, Chat_showError(data.content))
                        /\ outstanding' = FALSE
                        /\ UNCHANGED <<messageHistory, isTyping, currentAssistantMessage,
                                       currentAssistantMessageDiv, deltaLog,
                                       sendButtonDisabled, messageInputDisabled>>
         [] OTHER ->
                \* default: console.warn only
                UNCHANGED <<messages, chatVars, sendButtonDisabled, messageInputDisabled>>
    /\ UNCHANGED <<variant, readyState, closePending, timers, inputValue,
                   sent, rcVars, closures, delays>>

\* the user edits the textarea (the input listener only resizes it)
Chat_input(v) ==
    /\ variant = "chat"
    /\ ~closePending
    /\ ~messageInputDisabled
    /\ inputValue # v
    /\ inputValue' = v
    /\ last' = Ran("input", v)
    /\ UNCHANGED <<variant, readyState, closePending, timers, messages,
                   sendButtonDisabled, messageInputDisabled, sent, chatVars, rcVars,
                   closures, delays>>

\* ws.send given the payload object itself: every frame shows the one live array
Chat_send_SharedHistory(message, history) ==
    [i \in 1..(Len(sent) + 1) |->
        [message |-> IF i <= Len(sent) THEN sent[i].message ELSE message,
         history |-> history]]

\* ws.send(JSON.stringify({message, history})): the text is built at the call,
\* so the frame holds the values the array had then
Chat_send(message, history) ==
    Append(sent, [message |-> message, history |-> history])

\* the catch block without the two assignments that enable the controls
Chat_disabledAfterThrow_StaysDisabled == TRUE

\* sendMessage, catch block: the value given to sendButton.disabled and
\* messageInput.disabled
Chat_disabledAfterThrow == FALSE

\* sendMessage(): reached by the send button, the Enter key and window.sendMessage;
\* throws tells whether ws.send (or JSON.stringify) raises an exception
Chat_sendMessage(throws) ==
    LET message == Trim(inputValue)
        history == Chat_pushHistory([role |-> "user", content |-> message])
    IN  /\ variant = "chat"
        /\ ~closePending
        /\ last' = Ran("sendMessage", inputValue)
        /\ IF Chat_sendRejected(message)
           THEN /\ IF readyState # "OPEN"
                   THEN /\ Room(1)
                        /\ messages' = Append(messages,
                               Chat_addSystemMessage(<<"Cannot send message: Not connected.">>))
                   ELSE UNCHANGED messages
                /\ ~throws
                /\ UNCHANGED <<inputValue, sendButtonDisabled, messageInputDisabled,
                               sent, messageHistory, outstanding>>
           ELSE IF throws
           THEN \* the catch block reports the failure and enables the controls
                /\ Room(2)
                /\ messages' = Append(Append(messages,
                                             Chat_addMessage(message, "user", FALSE)),
                                      Chat_showError(<<"Failed to send message.">>))
                /\ messageHistory' = history
                /\ sendButtonDisabled' = Chat_disabledAfterThrow
                /\ messageInputDisabled' = Chat_disabledAfterThrow
                /\ inputValue' = <<>>
                /\ UNCHANGED <<sent, outstanding>>
           ELSE /\ Room(1)
                /\ messages' = Append(messages, Chat_addMessage(message, "user", FALSE))
                /\ messageHistory' = history
                /\ sendButtonDisabled' = TRUE
                /\ messageInputDisabled' = TRUE
                /\ sent' = Chat_send(message, history)
                /\ inputValue' = <<>>
                /\ outstanding' = TRUE
        /\ UNCHANGED <<variant, readyState, closePending, timers, isTyping,
                       currentAssistantMessage, currentAssistantMessageDiv, deltaLog,
                       rcVars, closures, delays>>

NextChat ==
    \/ Chat_onopen
    \/ Chat_onerror
    \/ Chat_onclose
    \/ Chat_initWebSocket
    \/ \E data \in Frames : Chat_onmessage(data)
    \/ \E v \in TypedTexts : Chat_input(v)
    \/ \E throws \in BOOLEAN : Chat_sendMessage(throws)

----------------------------------------------------------------------------
(* src/unnamed/part_000 *)

RECURSIVE StripNewlines(_)
StripNewlines(s) ==
    IF s # <<>> /\ Head(s) = "\n" THEN StripNewlines(Tail(s))
    ELSE IF s # <<>> /\ s[Len(s)] = "\n" THEN StripNewlines(SubSeq(s, 1, Len(s) - 1))
    ELSE s

\* formatMarkdown(text) = marked(text) on text without markdown syntax: nothing for
\* blank text, else one paragraph, its inner newlines kept, followed by a newline
Rc_formatMarkdown(text) ==
    LET body == StripNewlines(text)
    IN  IF body = <<>> THEN <<>> ELSE <<"<p>">> \o body \o <<"</p>", "\n">>

\* Node.textContent of markup: the text without the tags
Rc_textContent(html) == SelectSeq(html, LAMBDA t : t \notin {"<p>", "</p>"})

\* addMessage(content, role): the new child of #chat-messages
Rc_addMessage(content, role) ==
    Element(role, FALSE, IF role = "user" THEN content ELSE Rc_formatMarkdown(content))

\* addLoadingIndicator: the new child of #chat-messages (id current-loading)
Rc_addLoadingIndicator == Element("loading", FALSE, <<>>)

\* showError(message): the new child of #chat-messages
Rc_showError(message) == Element("error", FALSE, message)

\* removeLoadingIndicator on the children msgs: getElementById finds the first one
Rc_removeLoadingIndicator(msgs) ==
    LET found == {i \in 1..Len(msgs) : msgs[i].cls = "loading"}
    IN  IF found = {} THEN msgs
        ELSE LET i == CHOOSE j \in found : \A k \in found : j <= k
             IN  SubSeq(msgs, 1, i - 1) \o SubSeq(msgs, i + 1, Len(msgs))

\* document.querySelector('.message.assistant:last-child') finds an element
Rc_lastAssistant(msgs) == msgs # <<>> /\ msgs[Len(msgs)].cls = "assistant"

\* handleMessageDelta(delta): the children afterwards
Rc_handleMessageDelta(delta) ==
    LET msgs0 == IF Rc_lastAssistant(messages) THEN messages
                 ELSE Append(Rc_removeLoadingIndicator(messages),
                             Rc_addMessage(<<>>, "assistant"))
    IN  [msgs0 EXCEPT ![Len(msgs0)].html =
            Rc_formatMarkdown(Rc_textContent(@) \o delta)]

\* finalizeAssistantMessage(message): the children afterwards
Rc_finalizeAssistantMessage(message) ==
    LET msgs0 == Rc_removeLoadingIndicator(messages)
    IN  IF ~Rc_lastAssistant(msgs0)
        THEN Append(msgs0, Rc_addMessage(message, "assistant"))
        ELSE [msgs0 EXCEPT ![Len(msgs0)].html = Rc_formatMarkdown(message)]

\* updateConnectionStatus(connected): sendButton.disabled afterwards
Rc_updateConnectionStatus(connected) == ~connected \/ Trim(inputValue) = <<>>

\* the attempt test off by one
Rc_mayReconnect_OffByOne == reconnectAttempts <= maxReconnectAttempts

\* handleReconnect: the condition under which another attempt is scheduled
Rc_mayReconnect == reconnectAttempts < maxReconnectAttempts

\* handleReconnect: the timeout of the attempt counted attempts
Rc_reconnectTimeout(attempts) == reconnectDelay * attempts

\* switch (data.type): the case taken
Rc_switch(type) ==
    IF type \in {"tools", "delta", "complete", "error"} THEN type ELSE "default"

\* handleReconnect that reports the failure and still schedules an attempt
Rc_handleReconnect_KeepsRetrying ==
    IF Rc_mayReconnect
    THEN /\ reconnectAttempts' = reconnectAttempts + 1
         /\ timers' = Append(timers, Rc_reconnectTimeout(reconnectAttempts + 1))
         /\ delays' = Append(delays, Rc_reconnectTimeout(reconnectAttempts + 1))
         /\ UNCHANGED messages
    ELSE /\ messages' = Append(messages, Rc_showError(
                <<"Could not reconnect to the server. Please refresh the page.">>))
         /\ timers' = Append(timers, Rc_reconnectTimeout(reconnectAttempts))
         /\ UNCHANGED <<reconnectAttempts, delays>>

\* handleReconnect()
Rc_handleReconnect ==
    IF Rc_mayReconnect
    THEN /\ reconnectAttempts' = reconnectAttempts + 1
         /\ timers' = Append(timers, Rc_reconnectTimeout(reconnectAttempts + 1))
         /\ delays' = Append(delays, Rc_reconnectTimeout(reconnectAttempts + 1))
         /\ UNCHANGED messages
    ELSE /\ messages' = Append(messages, Rc_showError(
                <<"Could not reconnect to the server. Please refresh the page.">>))
         /\ UNCHANGED <<reconnectAttempts, timers, delays>>

\* onopen that leaves the attempt counter as it was
Rc_attemptsOnOpen_Kept == reconnectAttempts

\* ws.onopen: the value given to this.reconnectAttempts
Rc_attemptsOnOpen == 0

\* ws.onopen
Rc_onopen ==
    /\ variant = "rc"
    /\ readyState = "CONNECTING" /\ ~closePending
    /\ readyState' = "OPEN"
    /\ isConnected' = TRUE
    /\ reconnectAttempts' = Rc_attemptsOnOpen
    /\ sendButtonDisabled' = Rc_updateConnectionStatus(TRUE)
    /\ closures' = 0
    /\ delays' = <<>>
    /\ last' = Ran("onopen", <<>>)
    /\ UNCHANGED <<variant, closePending, timers, messages, inputValue,
                   messageInputDisabled, sent, chatVars, tools, toolsList, finalised>>

\* ws.onerror: the browser fires error and then close in one task
Rc_onerror ==
    /\ variant = "rc"
    /\ readyState # "CLOSED" /\ ~closePending
    /\ Room(1)
    /\ readyState' = "CLOSED"
    /\ closePending' = TRUE
    /\ messages' = Append(messages, Rc_showError(<<"Connection error occurred">>))
    /\ last' = Ran("onerror", <<>>)
    /\ UNCHANGED <<variant, timers, inputValue, sendButtonDisabled,
                   messageInputDisabled, sent, chatVars, rcVars, closures, delays>>

\* ws.onclose
Rc_onclose ==
    /\ variant = "rc"
    /\ readyState # "CLOSED" \/ closePending
    /\ readyState' = "CLOSED"
    /\ closePending' = FALSE
    /\ isConnected' = FALSE
    /\ sendButtonDisabled' = Rc_updateConnectionStatus(FALSE)
    /\ Rc_handleReconnect
    /\ closures' = closures + 1
    /\ last' = Ran("onclose", <<>>)
    /\ UNCHANGED <<variant, inputValue, messageInputDisabled, sent,
                   chatVars, tools, toolsList, finalised>>

\* the reconnect timer fires: initWebSocket constructs the next WebSocket
Rc_initWebSocket ==
    /\ variant = "rc"
    /\ ~closePending
    /\ \E i \in 1..Len(timers) :
          timers' = SubSeq(timers, 1, i - 1) \o SubSeq(timers, i + 1, Len(timers))
    /\ readyState' = "CONNECTING"
    /\ last' = Ran("timer", <<>>)
    /\ UNCHANGED <<variant, closePending, messages, inputValue, sendButtonDisabled,
                   messageInputDisabled, sent, chatVars, rcVars, closures, delays>>

\* renderTools(): #tools-list is emptied and gets one element for each tool
Rc_renderTools(ts) == [i \in 1..Len(ts) |-> [name |-> ts[i]]]

\* the announced tools added to the ones already held
Rc_handleToolsUpdate_Merges(announced) == tools \o announced

\* handleToolsUpdate(tools): the value given to this.tools
Rc_handleToolsUpdate(announced) == announced

\* ws.onmessage
Rc_onmessage(data) ==
    /\ variant = "rc"
    /\ readyState = "OPEN" /\ ~closePending
    /\ last' = Ran(data.type, data.content)
    /\ CASE data = Malformed ->
                \* JSON.parse throws out of the handler
                UNCHANGED <<messages, tools, toolsList, deltaLog, finalised>>
         [] data # Malformed /\ Rc_switch(data.type) = "tools" ->
                \* handleToolsUpdate
                /\ tools' = Rc_handleToolsUpdate(data.content)
                /\ toolsList' = Rc_renderTools(Rc_handleToolsUpdate(data.content))
                /\ UNCHANGED <<messages, deltaLog, finalised>>
         [] data # Malformed /\ Rc_switch(data.type) = "delta" ->
                /\ Fits(Rc_handleMessageDelta(data.content))
                /\ Len(deltaLog) < MaxContent
                /\ messages' = Rc_handleMessageDelta(data.content)
                /\ deltaLog' = Append(deltaLog, data.content)
                /\ finalised' = FALSE
                /\ UNCHANGED <<tools, toolsList>>
         [] data # Malformed /\ Rc_switch(data.type) = "complete" ->
                /\ Fits(Rc_finalizeAssistantMessage(data.content))
                /\ messages' = Rc_finalizeAssistantMessage(data.content)
                /\ deltaLog' = <<>>
                /\ finalised' = TRUE
                /\ UNCHANGED <<tools, toolsList>>
         [] data # Malformed /\ Rc_switch(data.type) = "error" ->
                /\ Room(1)
                /\ messages' = Append(messages, Rc_showError(data.content))
                /\ UNCHANGED <<tools, toolsList, deltaLog, finalised>>
         [] OTHER ->
                \* default: console.warn only
                UNCHANGED <<messages, tools, toolsList, deltaLog, finalised>>
    /\ UNCHANGED <<variant, readyState, closePending, timers, inputValue,
                   sendButtonDisabled, messageInputDisabled, sent, messageHistory,
                   isTyping, currentAssistantMessage, currentAssistantMessageDiv,
                   outstanding, isConnected, reconnectAttempts, closures, delays>>

\* the user edits the textarea: the input listener
Rc_input(v) ==
    /\ variant = "rc"
    /\ ~closePending
    /\ inputValue # v
    /\ inputValue' = v
    /\ sendButtonDisabled' = (Trim(v) = <<>>)
    /\ last' = Ran("input", v)
    /\ UNCHANGED <<variant, readyState, closePending, timers, messages,
                   messageInputDisabled, sent, chatVars, rcVars, closures, delays>>

\* sendMessage: the condition of the early return
Rc_sendRejected(message) == message = <<>> \/ ~isConnected

\* sendMessage(): reached by the send button, the Enter key and window.chatApp
Rc_sendMessage ==
    LET message == Trim(inputValue)
    IN  /\ variant = "rc"
        /\ ~closePending
        /\ last' = Ran("sendMessage", inputValue)
        /\ IF Rc_sendRejected(message)
           THEN UNCHANGED <<messages, inputValue, sendButtonDisabled, sent, deltaLog,
                            finalised>>
           ELSE /\ Room(2)
                /\ messages' = Append(Append(messages, Rc_addMessage(message, "user")),
                                      Rc_addLoadingIndicator)
                /\ inputValue' = <<>>
                /\ sendButtonDisabled' = TRUE
                /\ sent' = Append(sent, [message |-> message, history |-> <<>>])
                /\ deltaLog' = <<>>
                /\ finalised' = FALSE
        /\ UNCHANGED <<variant, readyState, closePending, timers,
                       messageInputDisabled, messageHistory, isTyping,
                       currentAssistantMessage, currentAssistantMessageDiv,
                       outstanding, tools, toolsList, isConnected, reconnectAttempts,
                       closures, delays>>

NextRc ==
    \/ Rc_onopen
    \/ Rc_onerror
    \/ Rc_onclose
    \/ Rc_initWebSocket
    \/ \E data \in Frames : Rc_onmessage(data)
    \/ \E v \in TypedTexts : Rc_input(v)
    \/ Rc_sendMessage

Next == NextChat \/ NextRc

----------------------------------------------------------------------------
\* the state when the constructor returns
Init ==
    /\ variant \in Variants
    /\ readyState = "CONNECTING"
    /\ closePending = FALSE
    /\ timers = <<>>
    /\ messages = <<>>
    /\ inputValue = <<>>
    /\ sendButtonDisabled = TRUE
    /\ messageInputDisabled = FALSE
    /\ sent = <<>>
    /\ messageHistory = <<>>
    /\ isTyping = FALSE
    /\ currentAssistantMessage = <<>>
    /\ currentAssistantMessageDiv = 0
    /\ tools = <<>>
    /\ toolsList = <<>>
    /\ isConnected = FALSE
    /\ reconnectAttempts = 0
    /\ deltaLog = <<>>
    /\ closures = 0
    /\ delays = <<>>
    /\ outstanding = FALSE
    /\ finalised = FALSE
    /\ last = Ran("constructor", <<>>)

InitChat == Init /\ variant = "chat"

SpecChat == InitChat /\ [][NextChat]_vars

InitRc == Init /\ variant = "rc"

SpecRc == InitRc /\ [][NextRc]_vars

Spec == Init /\ [][Next]_vars

----------------------------------------------------------------------------
(* Properties *)

P == last.pre

NotConnectedNotice == Chat_addSystemMessage(<<"Cannot send message: Not connected.">>)

CountOf(msgs, cls) == Cardinality({i \in 1..Len(msgs) : msgs[i].cls = cls})

\* C1, as stated: in chat.js a sendMessage made while the transport is not open sends
\* no frame and leaves the transcript (entries of every role) and messageHistory
\* exactly as they were
C1_NotConnectedLeavesTranscript ==
    (variant = "chat" /\ last.op = "sendMessage" /\ P.readyState # "OPEN")
    => /\ sent = P.sent
       /\ messageHistory = P.messageHistory
       /\ messages = P.messages

\* C1, amended: in chat.js a sendMessage made while the transport is not open sends
\* no frame, leaves messageHistory, the streaming slot and every existing transcript
\* entry as they were, and appends exactly one System entry, the not-connected notice
C1_NotConnectedAppendsNotice ==
    (variant = "chat" /\ last.op = "sendMessage" /\ P.readyState # "OPEN")
    => /\ sent = P.sent
       /\ messageHistory = P.messageHistory
       /\ messages = Append(P.messages, NotConnectedNotice)
       /\ isTyping = P.isTyping
       /\ currentAssistantMessage = P.currentAssistantMessage
       /\ currentAssistantMessageDiv = P.currentAssistantMessageDiv

C1_Witness ==
    /\ variant = "chat" /\ last.op = "sendMessage"
    /\ P.readyState # "OPEN"
    /\ Trim(P.inputValue) # <<>>
    /\ P.messages # <<>>

\* C2: in chat.js a sendMessage made while isTyping is true sends no frame, appends
\* no User entry to the transcript or to messageHistory, and leaves the streaming
\* entry and its accumulated content as they were
C2_BusyRejected ==
    (variant = "chat" /\ last.op = "sendMessage" /\ P.isTyping)
    => /\ sent = P.sent
       /\ messageHistory = P.messageHistory
       /\ CountOf(messages, "user") = CountOf(P.messages, "user")
       /\ isTyping
       /\ currentAssistantMessage = P.currentAssistantMessage
       /\ currentAssistantMessageDiv = P.currentAssistantMessageDiv
       /\ currentAssistantMessageDiv \in 1..Len(messages)
       /\ messages[currentAssistantMessageDiv] = P.messages[currentAssistantMessageDiv]

C2_Witness ==
    /\ variant = "chat" /\ last.op = "sendMessage"
    /\ P.isTyping /\ P.readyState = "OPEN"
    /\ Trim(P.inputValue) # <<>>

\* C3: in chat.js, while an entry is streaming, its accumulated content is the
\* concatenation, in arrival order, of the deltas received since the entry was
\* created (a new entry starts from the empty text), and the entry displays it
C3_DeltasConcatenate ==
    (variant = "chat" /\ isTyping)
    => /\ currentAssistantMessage = Concat(deltaLog)
       /\ currentAssistantMessageDiv \in 1..Len(messages)
       /\ messages[currentAssistantMessageDiv] =
            Element("assistant", TRUE,
                    <<"<p>">> \o Concat(deltaLog) \o <<"...", "</p>">>)
       /\ (last.op = "delta" /\ ~P.isTyping) => currentAssistantMessage = last.arg

C3_Witness ==
    /\ variant = "chat" /\ isTyping
    /\ Len(deltaLog) = 2 /\ deltaLog[1] # deltaLog[2]
    /\ last.op = "delta"

\* C4: in chat.js a complete received while the streaming slot is occupied makes the
\* entry final with finalText when that is non-empty and with the accumulated deltas
\* otherwise, and releases the slot; a delta received with the slot free starts a
\* new entry and leaves the earlier entries alone
C4_CompleteFinalises ==
    /\ (variant = "chat" /\ last.op = "complete" /\ P.isTyping)
       => /\ ~isTyping
          /\ currentAssistantMessageDiv = 0
          /\ currentAssistantMessage = <<>>
          /\ messages =
               [P.messages EXCEPT ![P.currentAssistantMessageDiv] =
                   Element("assistant", FALSE,
                       <<"<p>">>
                       \o (IF last.arg # <<>> THEN last.arg ELSE Concat(P.deltaLog))
                       \o <<"</p>">>)]
    /\ (variant = "chat" /\ last.op = "delta" /\ ~P.isTyping)
       => /\ Len(messages) = Len(P.messages) + 1
          /\ SubSeq(messages, 1, Len(P.messages)) = P.messages
          /\ currentAssistantMessageDiv = Len(messages)

C4_Witness ==
    /\ variant = "chat" /\ last.op = "complete" /\ P.isTyping
    /\ last.arg = <<>>
    /\ Len(P.deltaLog) = 2

\* the text a reader sees in an rc entry: its text content, whitespace apart
Rc_visibleText(html) == SelectSeq(Rc_textContent(html), LAMBDA t : t # "\n")

\* C5, as stated: in the reconnecting client, when the deltas answering a submit are
\* followed by a complete with empty text, the transcript holds one Assistant entry
\* for the answer, whose content is the concatenation of the deltas in order
C5_EmptyCompleteKeepsDeltas ==
    (/\ variant = "rc" /\ last.op = "complete" /\ last.arg = <<>>
     /\ P.deltaLog # <<>>
     /\ Len(P.messages) >= 2
     /\ P.messages[Len(P.messages) - 1].cls = "user"
     /\ P.messages[Len(P.messages)].cls = "assistant")
    => /\ Len(messages) = Len(P.messages)
       /\ messages[Len(messages)].cls = "assistant"
       /\ Rc_visibleText(messages[Len(messages)].html) = Concat(P.deltaLog)

\* C6: in chat.js every error event appends exactly one Error entry carrying the
\* event's message and creates no other entry; with the slot free the earlier
\* entries and messageHistory stay as they were
C6_ErrorEventAppendsOne ==
    (variant = "chat" /\ last.op = "error")
    => /\ Len(messages) = Len(P.messages) + 1
       /\ messages[Len(messages)] =
            Element("error", FALSE, <<"<p>", "Error: ">> \o last.arg \o <<"</p>">>)
       /\ \A i \in 1..Len(P.messages) : messages[i].cls = P.messages[i].cls
       /\ ~P.isTyping
          => /\ SubSeq(messages, 1, Len(P.messages)) = P.messages
             /\ messageHistory = P.messageHistory
             /\ ~isTyping

C6_Witness ==
    /\ variant = "chat" /\ last.op = "error"
    /\ ~P.isTyping
    /\ last.arg = <<"boom">>
    /\ CountOf(messages, "assistant") = 0

\* C7, as stated: in chat.js, when the transport closes while an entry is streaming,
\* the entry stops streaming with its accumulated content kept, the slot is released
\* and a reconnect is scheduled
C7_CloseReleasesSlot ==
    (variant = "chat" /\ last.op = "onclose" /\ P.isTyping)
    => /\ ~isTyping
       /\ currentAssistantMessageDiv = 0
       /\ messages[P.currentAssistantMessageDiv] =
            Element("assistant", FALSE,
                    <<"<p>">> \o P.currentAssistantMessage \o <<"</p>">>)
       /\ Len(timers) = Len(P.timers) + 1

\* the reconnecting client has given up: handleReconnect reported it in msgs
Rc_failedIn(msgs) ==
    \E i \in 1..Len(msgs) :
        msgs[i] = Rc_showError(
            <<"Could not reconnect to the server. Please refresh the page.">>)

Rc_failed == Rc_failedIn(messages)

Min(a, b) == IF a <= b THEN a ELSE b

\* C8: in the reconnecting client the n-th consecutive closure without an open in
\* between schedules a reconnect after 1000*n ms, for n = 1..5, and the sixth
\* schedules nothing and leaves the client failed
C8_LinearBackoff ==
    variant = "rc"
    => /\ closures <= 6
       /\ delays = SubSeq(<<1000, 2000, 3000, 4000, 5000>>, 1, Min(closures, 5))
       /\ (last.op = "onclose" /\ P.closures < 5)
          => timers = Append(P.timers, 1000 * (P.closures + 1))
       /\ (last.op = "onclose" /\ P.closures >= 5)
          => timers = <<>> /\ P.timers = <<>> /\ Rc_failed
       /\ closures = 6 => Rc_failed /\ readyState = "CLOSED" /\ timers = <<>>
       /\ closures < 6 => ~Rc_failed

C8_Witness ==
    /\ variant = "rc" /\ last.op = "onclose"
    /\ closures = 6
    /\ delays = <<1000, 2000, 3000, 4000, 5000>>

\* C9: in the reconnecting client, once the client has failed no reconnect timer is
\* pending and no WebSocket is connecting or open, and every handler that runs in
\* the failed state leaves the client failed, constructs no WebSocket, schedules no
\* timer and sends no frame
C9_FailedIsTerminal ==
    /\ (variant = "rc" /\ Rc_failed)
       => /\ timers = <<>>
          /\ readyState = "CLOSED"
          /\ ~isConnected
          /\ ~closePending
    /\ (variant = "rc" /\ Rc_failedIn(P.messages))
       => /\ Rc_failed
          /\ P.readyState = "CLOSED" /\ readyState = "CLOSED"
          /\ P.timers = <<>> /\ timers = <<>>
          /\ sent = P.sent
          /\ last.op \in {"sendMessage", "input"}

C9_Witness ==
    /\ variant = "rc" /\ Rc_failedIn(P.messages)
    /\ last.op = "sendMessage"
    /\ Trim(P.inputValue) # <<>>

\* a type value the client's switch has no case for
Unrecognised(type) == type = "bogus" \/ (variant = "chat" /\ type = "tools")

\* C10: in both clients a frame that parses but has an unrecognised type leaves the
\* transcript, messageHistory, the streaming slot and its content, the tool set and
\* the connection as they were, and the connection still takes frames
C10_UnknownTypeIgnored ==
    Unrecognised(last.op)
    => /\ messages = P.messages
       /\ messageHistory = P.messageHistory
       /\ isTyping = P.isTyping
       /\ currentAssistantMessage = P.currentAssistantMessage
       /\ currentAssistantMessageDiv = P.currentAssistantMessageDiv
       /\ tools = P.tools
       /\ readyState = "OPEN" /\ P.readyState = "OPEN"
       /\ ~closePending
       /\ isConnected = P.isConnected
       /\ reconnectAttempts = P.reconnectAttempts
       /\ timers = P.timers
       /\ sent = P.sent

C10_Witness ==
    /\ last.op = "bogus"
    /\ variant = "chat"
    /\ isTyping
    /\ messageHistory # <<>>

C10_WitnessRc ==
    /\ last.op = "bogus"
    /\ variant = "rc"
    /\ Rc_lastAssistant(messages)
    /\ tools # <<>>

\* C11 (chat): between a frame handed to ws.send and the complete or error frame
\* that follows it, no call of sendMessage hands over a second frame, the time
\* before the first delta included: the textarea stays disabled and empty for
\* the whole interval, so every such call returns early
C11_OneOutstandingRequest ==
    /\ (variant = "chat" /\ outstanding)
       => (messageInputDisabled /\ inputValue = <<>>)
    /\ (variant = "chat" /\ last.op = "sendMessage" /\ P.outstanding)
       => (sent = P.sent /\ outstanding)

\* sendMessage is called on an open connection after a frame was sent and before
\* its first delta
C11_Witness ==
    /\ variant = "chat" /\ last.op = "sendMessage"
    /\ P.outstanding /\ ~P.isTyping /\ P.readyState = "OPEN"

\* C12 (chat): once an error frame has been handled on an open connection, with
\* or without a delta before it, the streaming slot is free and the send button
\* and the textarea that the pending sendMessage disabled are enabled again
C12_ErrorLeavesUsable ==
    (variant = "chat" /\ last.op = "error" /\ P.readyState = "OPEN")
    => /\ ~isTyping /\ currentAssistantMessageDiv = 0
       /\ P.outstanding => (~sendButtonDisabled /\ ~messageInputDisabled)

\* nothing but white space
Blank(s) == \A i \in 1..Len(s) : s[i] = " "

\* C13 (chat, rc): a sendMessage call whose text is empty after trimming hands
\* no frame to ws.send and adds no user entry to #chat-messages or to
\* messageHistory, whatever the connection and the stream are doing
C13_EmptySubmitIgnored ==
    (last.op = "sendMessage" /\ Blank(last.arg))
    => /\ sent = P.sent
       /\ CountOf(messages, "user") = CountOf(P.messages, "user")
       /\ messageHistory = P.messageHistory

\* a text of blanks only is submitted on an open connection
C13_Witness ==
    /\ variant = "chat" /\ last.op = "sendMessage" /\ last.arg = <<" ">>
    /\ P.readyState = "OPEN" /\ ~P.isTyping

\* the same in the client with bounded reconnects
C13_WitnessRc ==
    /\ variant = "rc" /\ last.op = "sendMessage" /\ last.arg = <<" ">>
    /\ P.isConnected

\* C14 (chat): the history inside a frame is the value messageHistory had when
\* the frame was sent; whatever runs afterwards, later pushes to messageHistory
\* included, leaves the frames sent so far as they were
C14_SentFramesFrozen ==
    variant = "chat"
    => /\ Len(P.sent) <= Len(sent)
       /\ SubSeq(sent, 1, Len(P.sent)) = P.sent
       /\ (last.op = "sendMessage" /\ sent # P.sent)
          => /\ Len(sent) = Len(P.sent) + 1
             /\ sent[Len(sent)].history = messageHistory

\* the reply to a sent frame is pushed to messageHistory, which is then longer
\* than the history inside that frame
C14_Witness ==
    /\ variant = "chat" /\ last.op = "complete"
    /\ sent # <<>>
    /\ messageHistory # P.messageHistory
    /\ Len(sent[Len(sent)].history) < Len(messageHistory)

\* the children of #chat-messages that carry the class typing
Streaming(msgs) == {i \in 1..Len(msgs) : msgs[i].typing}

\* C15 (chat): never more than one entry of #chat-messages is streaming; a delta
\* creates a streaming assistant entry only when none exists and otherwise
\* appends to the one that does
C15_SingleStreamingEntry ==
    variant = "chat"
    => /\ Cardinality(Streaming(messages)) <= 1
       /\ isTyping <=> Streaming(messages) # {}
       /\ isTyping => Streaming(messages) = {currentAssistantMessageDiv}
       /\ (last.op = "delta" /\ P.isTyping)
          => /\ Len(messages) = Len(P.messages)
             /\ Streaming(messages) = Streaming(P.messages)
       /\ (last.op = "delta" /\ ~P.isTyping)
          => /\ Len(messages) = Len(P.messages) + 1
             /\ Streaming(messages) = {Len(messages)}
             /\ messages[Len(messages)].cls = "assistant"

\* a delta arrives while an entry is streaming
C15_Witness ==
    /\ variant = "chat" /\ last.op = "delta" /\ P.isTyping
    /\ Streaming(P.messages) # {}

\* C16 (rc): an assistant entry that a complete frame has finalised keeps its
\* content: a later delta or complete frame leaves the entry as it was
C16_FinalEntryImmutable ==
    (/\ variant = "rc" /\ last.op \in {"delta", "complete"}
     /\ P.finalised /\ Rc_lastAssistant(P.messages))
    => \E i \in 1..Len(messages) : messages[i] = P.messages[Len(P.messages)]

\* C17 (chat): a complete frame that arrives while no entry is streaming appends
\* one final assistant entry whose content is the text of the frame
C17_CompleteWithoutStream ==
    (variant = "chat" /\ last.op = "complete" /\ ~P.isTyping)
    => messages = Append(P.messages, Chat_addMessage(last.arg, "assistant", FALSE))

\* C18 (chat): an error frame that arrives while an entry is streaming ends that
\* entry with the text accumulated so far as its content, frees the streaming
\* slot, and pushes nothing to messageHistory
C18_ErrorEndsStream ==
    (variant = "chat" /\ last.op = "error" /\ P.isTyping)
    => /\ messages[P.currentAssistantMessageDiv] =
              Element("assistant", FALSE, <<"<p>">> \o Concat(P.deltaLog) \o <<"</p>">>)
       /\ ~isTyping
       /\ currentAssistantMessageDiv = 0
       /\ Streaming(messages) = {}
       /\ messageHistory = P.messageHistory

\* the error frame arrives after two deltas
C18_Witness ==
    /\ variant = "chat" /\ last.op = "error" /\ P.isTyping
    /\ Len(P.deltaLog) = 2

\* C19 (rc): every open sets reconnectAttempts to 0, so the closure that ends an
\* open connection is again the first of the budget: it schedules attempt 1 at
\* reconnectDelay, whatever number of attempts preceded the open
C19_OpenResetsBudget ==
    variant = "rc"
    => /\ last.op = "onopen" => (reconnectAttempts = 0 /\ isConnected)
       /\ isConnected => reconnectAttempts = 0
       /\ (last.op = "onclose" /\ P.isConnected)
          => /\ reconnectAttempts = 1
             /\ timers = <<reconnectDelay>>
             /\ delays = <<reconnectDelay>>

\* a connection opens after two failed attempts
C19_Witness ==
    /\ variant = "rc" /\ last.op = "onopen"
    /\ P.reconnectAttempts = 2

\* an open connection closes
C19_WitnessClose ==
    /\ variant = "rc" /\ last.op = "onclose" /\ P.isConnected

\* the timer that constructs the next WebSocket runs only after the close event
\* of the current one: the instance it replaces is closed and delivers nothing more
SupersededIsClosed ==
    last.op = "timer" => (P.readyState = "CLOSED" /\ P.timers # <<>> /\ timers = <<>>)

\* C21 (chat): a payload that JSON.parse rejects adds exactly one error entry to
\* #chat-messages and changes nothing else: the connection stays open, no timer
\* is set, and the streaming entry, its accumulated text and messageHistory are
\* as before
C21_MalformedReported ==
    (variant = "chat" /\ last.op = "malformed")
    => /\ messages = Append(P.messages,
              Element("error", FALSE,
                  <<"<p>", "Error: ", "Received malformed data from server.", "</p>">>))
       /\ readyState = "OPEN" /\ P.readyState = "OPEN"
       /\ timers = P.timers
       /\ isTyping = P.isTyping
       /\ currentAssistantMessage = P.currentAssistantMessage
       /\ currentAssistantMessageDiv = P.currentAssistantMessageDiv
       /\ messageHistory = P.messageHistory
       /\ sent = P.sent
       /\ sendButtonDisabled = P.sendButtonDisabled
       /\ messageInputDisabled = P.messageInputDisabled
       /\ inputValue = P.inputValue

\* the malformed payload arrives in the middle of a stream
C21_Witness ==
    /\ variant = "chat" /\ last.op = "malformed"
    /\ P.isTyping /\ P.currentAssistantMessage # <<>>

\* C22 (rc): a tools frame makes the announced list the whole of this.tools and
\* of #tools-list, nothing of the previous list staying unless announced again,
\* and leaves #chat-messages, the connection state and reconnectAttempts alone
C22_ToolsReplaced ==
    (variant = "rc" /\ last.op = "tools")
    => /\ tools = last.arg
       /\ toolsList = [i \in 1..Len(last.arg) |-> [name |-> last.arg[i]]]
       /\ messages = P.messages
       /\ readyState = P.readyState
       /\ isConnected = P.isConnected
       /\ reconnectAttempts = P.reconnectAttempts
       /\ timers = P.timers

\* the empty list is announced while a tool is held
C22_Witness ==
    /\ variant = "rc" /\ last.op = "tools"
    /\ P.tools = <<"t1">> /\ last.arg = <<>>

\* C23 (chat): the history of a sent frame is the sequence of the turns before
\* the submitted message, the accepted user messages and the assistant messages
\* finalised by a complete frame, in order, without the message being submitted
C23_HistoryIsPriorTurns ==
    (variant = "chat" /\ last.op = "sendMessage" /\ sent # P.sent)
    => /\ sent[Len(sent)].history = P.messageHistory
       /\ \A i \in 1..Len(sent[Len(sent)].history) :
             sent[Len(sent)].history[i].role \in {"user", "assistant"}

\* the WebSocket held in this.ws, counted when it is connecting or open
LiveTransports == IF readyState \in {"CONNECTING", "OPEN"} THEN 1 ELSE 0

\* C24 (chat, rc): the transports that are connecting or open and the pending
\* reconnect timers together never number more than one: a closure sets at most
\* one timer, and a timer constructs its WebSocket only when the one before it
\* is closed and no other timer is pending
C24_OneTransportOrTimer ==
    /\ LiveTransports + Len(timers) <= 1
    /\ last.op = "onclose" => (LiveTransports = 0 /\ Len(timers) <= 1)
    /\ last.op = "timer"
       => /\ P.readyState = "CLOSED" /\ Len(P.timers) = 1
          /\ readyState = "CONNECTING" /\ timers = <<>>

\* the timer of a closure has fired and constructed the next WebSocket
C24_Witness ==
    /\ last.op = "timer" /\ LiveTransports = 1

\* a closure has set its timer
C24_WitnessTimer ==
    /\ last.op = "onclose" /\ Len(timers) = 1 /\ variant = "rc"

\* C25 (chat): every close event sets exactly one timer of 5000 ms for the next
\* attempt, however many attempts have failed before; there is no budget and no
\* final state, so outside the error/close pair of one task either a WebSocket
\* is connecting or open or a timer is pending
C25_AlwaysReconnects ==
    variant = "chat"
    => /\ last.op = "onclose" => (timers = <<5000>> /\ P.timers = <<>>)
       /\ ~closePending => LiveTransports + Len(timers) = 1
       /\ closePending => last.op = "onerror"

\* the third attempt in a row has failed
C25_Witness ==
    /\ variant = "chat" /\ last.op = "onclose"
    /\ Len(messages) = 3
    /\ \A i \in 1..3 :
          messages[i].html = <<"Connection lost. Attempting to reconnect...">>

\* C26 (chat): when ws.send throws inside sendMessage, the user entry already
\* added to #chat-messages and to messageHistory stays, exactly one error entry
\* follows it, the send button and the textarea are enabled, no frame has gone
\* out and no entry is streaming
C26_SendThrowKeepsEntry ==
    (/\ variant = "chat" /\ last.op = "sendMessage"
     /\ messageHistory # P.messageHistory /\ sent = P.sent)
    => /\ messages = P.messages \o
              << Element("user", FALSE, <<"<p>">> \o TrimEnd(TrimStart(last.arg)) \o <<"</p>">>),
                 Element("error", FALSE,
                     <<"<p>", "Error: ", "Failed to send message.", "</p>">>) >>
       /\ messageHistory = Append(P.messageHistory,
              [role |-> "user", content |-> TrimEnd(TrimStart(last.arg))])
       /\ ~sendButtonDisabled /\ ~messageInputDisabled
       /\ ~isTyping /\ currentAssistantMessageDiv = 0
       /\ inputValue = <<>>

\* ws.send has thrown for an accepted message
C26_Witness ==
    /\ variant = "chat" /\ last.op = "sendMessage"
    /\ messageHistory # P.messageHistory /\ sent = P.sent
    /\ P.readyState = "OPEN"

\* s is an initial part of t
IsPrefix(s, t) == Len(s) <= Len(t) /\ SubSeq(t, 1, Len(s)) = s

\* C27 (chat): messageHistory changes only by an item added at its end, whatever
\* runs, closures and reconnects included; hence the history of a sent frame
\* starts with the history of every frame sent before it and ends with the user
\* message the frame submits
C27_HistoryAppendOnly ==
    variant = "chat"
    => /\ IsPrefix(P.messageHistory, messageHistory)
       /\ Len(messageHistory) <= Len(P.messageHistory) + 1
       /\ last.op \in {"onopen", "onerror", "onclose", "timer"}
          => messageHistory = P.messageHistory
       /\ \A j \in 1..Len(sent) :
             /\ sent[j].history # <<>>
             /\ sent[j].history[Len(sent[j].history)] =
                    [role |-> "user", content |-> sent[j].message]
             /\ \A i \in 1..j : IsPrefix(sent[i].history, sent[j].history)
             /\ IsPrefix(sent[j].history, messageHistory)

\* the reply to a sent message is pushed behind it
C27_Witness ==
    /\ variant = "chat" /\ last.op = "complete"
    /\ Len(P.messageHistory) = 1 /\ Len(messageHistory) = 2

\* a second frame goes out
C27_WitnessFrames ==
    /\ variant = "chat" /\ last.op = "sendMessage" /\ Len(sent) = 2 /\ Len(P.sent) = 1

\* the connection closes with a message in the history
C27_WitnessClose ==
    /\ variant = "chat" /\ last.op = "onclose" /\ messageHistory # <<>>
====
